---- MODULE Spec2Model ----
(***************************************************************************)
(* Kombo / skeletron: the action bus (ActionDispatcher, src/src/kombo/     *)
(* main.ts) and the per-model suspend/wake protocol (StatelessModel,       *)
(* src/unnamed/part_000).                                                  *)
(*                                                                         *)
(* JavaScript runs one call stack at a time.  The variable `stack` is the  *)
(* stack of broadcasts in progress: Subject.next() delivers synchronously, *)
(* so a dispatch() made inside a side-effect handler starts a nested       *)
(* broadcast on top of the one that called the handler.  Timers and        *)
(* external dispatch() calls run only when the stack is empty.             *)
(*                                                                         *)
(* Spec is the bus at work on models whose handlers were registered in     *)
(* their constructors; RegSpec is the setup phase, the calls of the        *)
(* registration methods of StatelessModel on the handler tables.           *)
(***************************************************************************)
EXTENDS Integers, Sequences, FiniteSets, TLC

VARIABLES
    stack,            \* broadcasts in progress, innermost last
    seed,             \* scan()'s accumulator per model (main.ts 106-129)
    state,            \* value of the BehaviorSubject state$ per model
    stopped,          \* state$ has received error(): the model is cut off
    actionMatch,      \* per model: action name -> reducer
    sideEffectMatch,  \* per model: action name -> side-effect handler
    wakeFn,           \* per model: wake predicate or NoFn
    syncData,         \* per model: reference to the syncData object or Null
    stream,           \* per model: the pipeline returned by the last suspend
    nextId,           \* identity of the next action object created
    nExt,             \* number of external dispatch() calls so far
    nSusp,            \* number of successful suspend calls so far
    nReg,             \* number of handler-registration calls so far
    seen,             \* history: the actions each model observed, in order
    snapshots,        \* history: what state$ published per model
    ev                \* history: the call made by the last step

vars == <<stack, seed, state, stopped, actionMatch, sideEffectMatch, wakeFn,
          syncData, stream, nextId, nExt, nSusp, nReg, seen, snapshots, ev>>

----------------------------------------------------------------------------
(* Bounds *)

NumModels == 2
MaxDispatch == 2
MaxSuspend == 1
MaxSync == 2
MaxReg == 2
MaxEpisodes == 2
MaxWake == 4

(* Program values *)

Models == 1..NumModels
Names == {"A", "B", "C"}
NoFn == "null"                 \* this.wakeFn = null
Undefined == <<"undefined">>   \* no entry for the name in a handler table
Null == 0                      \* null as a syncData value or wakeFn result
Throw == -1                    \* wakeFn raised an exception
SyncVals == 1..MaxSync         \* references to distinct syncData objects
InitialStates == {1}

(* What callers hand to dispatch: any name; the error flag, which only    *)
(* wakeUp reads and only on an action that wakes a model, on C.            *)
DispatchInputs ==
    {[name |-> n, error |-> FALSE] : n \in Names}
        \cup {[name |-> "C", error |-> TRUE]}

(* A reducer is a sequence of primitive functions on the state (an        *)
(* integer), applied left to right.  A step written with a question mark  *)
(* is the wrapper addActionSubtypeHandler builds around a primitive: it   *)
(* applies the primitive to the actions its predicate accepts and is the  *)
(* identity on the others.                                                 *)
Prims == {"inc", "dbl"}

ApplyPrim(p, s) ==
    IF p = "inc" THEN s + 1 ELSE 2 * s

\* the predicate handed to addActionSubtypeHandler
Match(a) == a.error

GuardedPrim == [inc |-> "inc?", dbl |-> "dbl?"]

\* Variant of ApplyStep: the wrapper of part_000 193 ignores its predicate.
ApplyStep_Unguarded(x, s, a) ==
    IF x \in Prims THEN ApplyPrim(x, s)
    ELSE ApplyPrim(CHOOSE p \in Prims : GuardedPrim[p] = x, s)

\* one step of a reducer; the guarded step is part_000 193
ApplyStep(x, s, a) ==
    IF x \in Prims THEN ApplyPrim(x, s)
    ELSE IF Match(a)
         THEN ApplyPrim(CHOOSE p \in Prims : GuardedPrim[p] = x, s)
         ELSE s

RECURSIVE ApplyReducer(_, _, _)
ApplyReducer(r, s, a) ==
    IF r = <<>> THEN s
    ELSE ApplyReducer(Tail(r), ApplyStep(Head(r), s, a), a)

(* A side-effect handler is the sequence of action names it hands to its  *)
(* dispatch helper, in order; a name written with a question mark is      *)
(* dispatched by the wrapper of addActionSubtypeHandler, that is only for *)
(* the actions the predicate accepts.                                      *)
GuardedName == [A |-> "A?", B |-> "B?", C |-> "C?"]

RECURSIVE Calls(_, _)
Calls(h, a) ==
    IF h = <<>> THEN <<>>
    ELSE LET x == Head(h) IN
         IF x \in Names THEN <<x>> \o Calls(Tail(h), a)
         ELSE IF Match(a)
              THEN <<CHOOSE n \in Names : GuardedName[n] = x>>
                       \o Calls(Tail(h), a)
              ELSE Calls(Tail(h), a)

(* Wake predicates: per action name, return null, the syncData they were  *)
(* given ("same"), another value ("new"), or throw.                        *)
WakeFns == {"f1", "f2"}

WakeFnTable(fn) ==
    IF fn = "f1" THEN [A |-> "same", B |-> "new",   C |-> "null"]
    ELSE [A |-> "null", B |-> "throw", C |-> "new"]

(* What callers hand to suspend (timeout 0) and suspendWithTimeout: a     *)
(* predicate, a fresh syncData object (reference 1) and a timeout or      *)
(* none; and null as syncData.                                             *)
SuspendInputs ==
    {[timeout |-> t, sync |-> 1, fn |-> fn] : t \in {0, 50}, fn \in WakeFns}
        \cup {[timeout |-> 0, sync |-> Null, fn |-> "f1"]}

(* A reducer is applied through actionMatch; a side-effect handler is the *)
(* sequence of action names it hands to its dispatch helper, in order.    *)
(* The handlers the models register in their constructors: models with   *)
(* an odd index react to A by dispatching B, the others react to B by     *)
(* dispatching C.                                                          *)
InitActionMatch(m) ==
    [A |-> <<"inc">>, B |-> <<"dbl">>, C |-> Undefined]

InitSideEffectMatch(m) ==
    IF m % 2 = 1
    THEN [A |-> <<"B">>, B |-> Undefined, C |-> Undefined]
    ELSE [A |-> Undefined, B |-> <<"C">>, C |-> <<>>]

(* The pipeline built by suspendWithTimeout, as its subscriber sees it:   *)
(*   term   "open", "complete" or "error" ("nostream" before any suspend) *)
(*   sub    the pipeline is subscribed to wakeEvents$                      *)
(*   timer  the timeout timer is armed                                     *)
(*   acc    the accumulator of the reduce() operator                       *)
(*   out    the actions delivered to the subscriber so far                 *)
(*   fwd    history: ids the model passed on while staying suspended       *)
(*   swal   history: ids the wake predicate answered with the same syncData*)
NoStream == [term |-> "nostream", err |-> "", sub |-> FALSE, timer |-> FALSE,
             acc |-> <<>>, out |-> <<>>, fwd |-> <<>>, swal |-> {}]

NoEv == [op |-> "init"]

Top == stack[Len(stack)]

SetTop(f) == [stack EXCEPT ![Len(stack)] = f]

Idle == stack = <<>>

----------------------------------------------------------------------------
(* StatelessModel *)

\* Variant of Reduce: an action without reducer resets the state.
Reduce_NoMatchResets(m, s, a) ==
    LET match == actionMatch[m][a.name] IN
    IF match # Undefined THEN ApplyReducer(match, s, a) ELSE 0

\* reduce(state, action), part_000 99-105
Reduce(m, s, a) ==
    LET match == actionMatch[m][a.name] IN
    IF match # Undefined THEN ApplyReducer(match, s, a) ELSE s

\* sideEffects(state, action, dispatch), part_000 116-121: the dispatch
\* calls the matching handler makes
SideEffects(m, a) ==
    LET match == sideEffectMatch[m][a.name] IN
    IF match # Undefined THEN Calls(match, a) ELSE <<>>

\* isActive(), part_000 354-356
IsActive(m) == wakeFn[m] = NoFn

\* getState(), part_000 370-372
GetState(m) == state[m]

\* wakeEvents$.next(action) seen through takeUntil and reduce
SubjectNext(s, a) ==
    IF s.sub THEN [s EXCEPT !.acc = Append(@, a.id)] ELSE s

\* Variant of SubjectComplete: the completion reaches the subscriber also
\* after the pipeline has ended.
SubjectComplete_AfterEnd(s) ==
    [s EXCEPT !.out = @ \o s.acc, !.acc = <<>>, !.term = "complete",
              !.sub = FALSE, !.timer = FALSE]

\* wakeEvents$.complete(): reduce emits the accumulated array, concatMap
\* replays it and the stream completes; takeUntil drops the timer
SubjectComplete(s) ==
    IF s.sub
    THEN [s EXCEPT !.out = @ \o s.acc, !.acc = <<>>, !.term = "complete",
                   !.sub = FALSE, !.timer = FALSE]
    ELSE s

\* wakeEvents$.error(e): the error passes reduce and concatMap, nothing
\* accumulated is emitted
SubjectError(s, e) ==
    IF s.sub
    THEN [s EXCEPT !.acc = <<>>, !.term = "error", !.err = e,
                   !.sub = FALSE, !.timer = FALSE]
    ELSE s

\* Variant of TimerError: the timer ends the stream as takeUntil(timer(..))
\* alone would, by completing it with what was accumulated.
TimerError_Complete(s) ==
    [s EXCEPT !.out = @ \o s.acc, !.acc = <<>>, !.term = "complete",
              !.sub = FALSE, !.timer = FALSE]

\* timer(timeout) fires: concatMap(throwError) makes takeUntil's notifier
\* fail, takeUntil passes the error on and unsubscribes from wakeEvents$
TimerError(s) ==
    [s EXCEPT !.acc = <<>>, !.term = "error", !.err = "timeout",
              !.sub = FALSE, !.timer = FALSE]

\* The stream a successful suspendWithTimeout returns, subscribed at once.
NewStream(timeout) ==
    [term |-> "open", err |-> "", sub |-> TRUE, timer |-> (timeout > 0),
     acc |-> <<>>, out |-> <<>>, fwd |-> <<>>, swal |-> {}]

\* this.wakeFn(action, this.syncData): the value returned, or Throw
WakeAns(fn, a, sync) ==
    LET r == WakeFnTable(fn)[a.name] IN
    IF r = "null" THEN Null
    ELSE IF r = "throw" THEN Throw
    ELSE IF r = "same" THEN sync
    ELSE (sync % MaxSync) + 1

\* wakeUp: what becomes of this.wakeFn (part_000 330, 345)
WakeFnAfter(ans, fn) ==
    IF ans = Null \/ ans = Throw THEN NoFn ELSE fn

\* Variant of SyncDataAfter: the returned value is not stored.
SyncDataAfter_Keep(ans, sync) == sync

\* wakeUp: what becomes of this.syncData (part_000 339-342)
SyncDataAfter(ans, sync) ==
    IF ans # Null /\ ans # Throw /\ ans # sync THEN ans ELSE sync

\* Variant of WakeEventsAfter: every non-null answer passes the action on,
\* also the one that is the syncData given.
WakeEventsAfter_ForwardSame(ans, a, sync, s) ==
    IF ans = Throw THEN SubjectError(s, "predicate")
    ELSE IF ans = Null
         THEN IF a.error THEN SubjectError(s, "action")
              ELSE SubjectComplete(SubjectNext(s, a))
    ELSE [SubjectNext(s, a) EXCEPT !.fwd = Append(@, a.id)]

\* wakeUp: the calls made on wakeEvents$ (part_000 329-347)
WakeEventsAfter(ans, a, sync, s) ==
    IF ans = Throw THEN SubjectError(s, "predicate")
    ELSE IF ans = Null
         THEN IF a.error THEN SubjectError(s, "action")
              ELSE SubjectComplete(SubjectNext(s, a))
    ELSE IF ans # sync
         THEN [SubjectNext(s, a) EXCEPT !.fwd = Append(@, a.id)]
    ELSE [s EXCEPT !.swal = @ \cup {a.id}]

AnsKind(ans, sync) ==
    IF ans = Null THEN "null"
    ELSE IF ans = Throw THEN "throw"
    ELSE IF ans = sync THEN "same" ELSE "new"

\* wakeUp(action), part_000 325-349
WakeUp(m, a) ==
    IF wakeFn[m] # NoFn /\ syncData[m] # Null
    THEN LET ans == WakeAns(wakeFn[m], a, syncData[m]) IN
         /\ wakeFn' = [wakeFn EXCEPT ![m] = WakeFnAfter(ans, @)]
         /\ syncData' = [syncData EXCEPT ![m] = SyncDataAfter(ans, @)]
         /\ stream' = [stream EXCEPT
                           ![m] = WakeEventsAfter(ans, a, syncData[m], @)]
         /\ ev' = [op |-> "wakeUp", m |-> m, id |-> a.id, error |-> a.error,
                   ans |-> AnsKind(ans, syncData[m])]
    ELSE /\ UNCHANGED <<wakeFn, syncData, stream>>
         /\ ev' = [op |-> "wakeUp", m |-> m, id |-> a.id, error |-> a.error,
                   ans |-> "notcalled"]

\* Variant of SuspendWithTimeout without the check of lines 287-289.
SuspendWithTimeout_NoGuard(m, timeout, sync, fn) ==
    /\ wakeFn' = [wakeFn EXCEPT ![m] = fn]
    /\ syncData' = [syncData EXCEPT ![m] = sync]
    /\ stream' = [stream EXCEPT ![m] = NewStream(timeout)]
    /\ ev' = [op |-> "suspend", m |-> m, ok |-> TRUE]

\* Variant of SuspendWithTimeout: wakeEvents$ is created once and used
\* again by every later suspension.
SuspendWithTimeout_SameSubject(m, timeout, sync, fn) ==
    IF wakeFn[m] # NoFn
    THEN /\ UNCHANGED <<wakeFn, syncData, stream>>
         /\ ev' = [op |-> "suspend", m |-> m, ok |-> FALSE]
    ELSE /\ wakeFn' = [wakeFn EXCEPT ![m] = fn]
         /\ syncData' = [syncData EXCEPT ![m] = sync]
         /\ stream' = [stream EXCEPT
                           ![m] = IF @.term = "nostream"
                                  THEN NewStream(timeout) ELSE @]
         /\ ev' = [op |-> "suspend", m |-> m, ok |-> TRUE]

\* suspendWithTimeout(timeout, syncData, wakeFn), part_000 286-304
SuspendWithTimeout(m, timeout, sync, fn) ==
    IF wakeFn[m] # NoFn
    THEN /\ UNCHANGED <<wakeFn, syncData, stream>>
         /\ ev' = [op |-> "suspend", m |-> m, ok |-> FALSE]
    ELSE /\ wakeFn' = [wakeFn EXCEPT ![m] = fn]
         /\ syncData' = [syncData EXCEPT ![m] = sync]
         /\ stream' = [stream EXCEPT ![m] = NewStream(timeout)]
         /\ ev' = [op |-> "suspend", m |-> m, ok |-> TRUE]

\* suspend(syncData, wakeFn), part_000 314-316
Suspend(m, sync, fn) == SuspendWithTimeout(m, 0, sync, fn)

----------------------------------------------------------------------------
(* ActionDispatcher *)

NewFrame(a) ==
    [action |-> a, i |-> 1, pc |-> "next", pre |-> 0, newState |-> 0,
     todo |-> <<>>]

\* Subject.next() goes on to the next subscriber of action$
NextSubscriber(f) ==
    [f EXCEPT !.i = @ + 1, !.pc = "next", !.pre = 0, !.newState = 0,
              !.todo = <<>>]

\* dispatch(action), main.ts 94-96, called from outside any broadcast
Dispatch(n, e) ==
    /\ Idle
    /\ nExt < MaxDispatch
    /\ stack' = <<NewFrame([id |-> nextId, name |-> n, error |-> e,
                            isSideEffect |-> FALSE, cause |-> 0])>>
    /\ nextId' = nextId + 1
    /\ nExt' = nExt + 1
    /\ ev' = [op |-> "dispatch", id |-> nextId]
    /\ UNCHANGED <<seed, state, stopped, actionMatch, sideEffectMatch, nReg, wakeFn,
                   syncData, stream, nSusp, seen, snapshots>>

\* Variant of ScanEnter: sideEffects is handed the state before reduction.
ScanEnter_StaleState(m, a) ==
    /\ stack' = SetTop([Top EXCEPT !.pc = "handler", !.pre = seed[m],
                                   !.newState = seed[m],
                                   !.todo = SideEffects(m, a)])
    /\ ev' = [op |-> "reduce", m |-> m, id |-> a.id]
    /\ UNCHANGED <<wakeFn, syncData, stream>>

\* scan accumulator, main.ts 107-112: reduce, then call sideEffects
ScanEnter(m, a) ==
    /\ stack' = SetTop([Top EXCEPT !.pc = "handler", !.pre = seed[m],
                                   !.newState = Reduce(m, seed[m], a),
                                   !.todo = SideEffects(m, a)])
    /\ ev' = [op |-> "reduce", m |-> m, id |-> a.id]
    /\ UNCHANGED <<wakeFn, syncData, stream>>

\* Variant of ModelNext: every action is reduced, suspended or not.
ModelNext_AlwaysReduce(m, a) == ScanEnter(m, a)

\* The model's subscription to action$: an active model reduces, a
\* suspended one is handed the action through wakeUp
ModelNext(m, a) ==
    IF IsActive(m)
    THEN ScanEnter(m, a)
    ELSE /\ WakeUp(m, a)
         /\ stack' = SetTop(NextSubscriber(Top))

\* Subject.next(), one subscriber: the action reaches the next model
Observe ==
    /\ ~Idle
    /\ Top.pc = "next"
    /\ Top.i <= NumModels
    /\ LET m == Top.i
           a == Top.action IN
       IF stopped[m]
       THEN /\ stack' = SetTop(NextSubscriber(Top))
            /\ ev' = [op |-> "skip", m |-> m, id |-> a.id]
            /\ UNCHANGED <<wakeFn, syncData, stream, seen>>
       ELSE /\ ModelNext(m, a)
            /\ seen' = [seen EXCEPT
                           ![m] = Append(@, [id |-> a.id, cause |-> a.cause])]
    /\ UNCHANGED <<seed, state, stopped, actionMatch, sideEffectMatch, nReg, nextId,
                   nExt, nSusp, snapshots>>

\* Variant of NestedSideEffect: the check of main.ts 114 is missing.
NestedSideEffect_Never(a) == FALSE

\* main.ts 114: the action being processed is itself a side effect
NestedSideEffect(a) == a.isSideEffect

\* the dispatch helper handed to sideEffects, main.ts 113-123
HandlerDispatch ==
    /\ ~Idle
    /\ Top.pc = "handler"
    /\ Top.todo # <<>>
    /\ LET m == Top.i
           a == Top.action IN
       IF NestedSideEffect(a)
       THEN \* throw: scan passes the error to state$ and the model is cut off
            /\ stopped' = [stopped EXCEPT ![m] = TRUE]
            /\ stack' = SetTop(NextSubscriber(Top))
            /\ ev' = [op |-> "seDispatch", m |-> m, id |-> a.id, ok |-> FALSE,
                      name |-> Head(Top.todo)]
            /\ UNCHANGED nextId
       ELSE /\ stack' = Append(SetTop([Top EXCEPT !.todo = Tail(@)]),
                               NewFrame([id |-> nextId, name |-> Head(Top.todo),
                                         error |-> FALSE, isSideEffect |-> TRUE,
                                         cause |-> a.id]))
            /\ nextId' = nextId + 1
            /\ ev' = [op |-> "seDispatch", m |-> m, id |-> a.id, ok |-> TRUE,
                      name |-> Head(Top.todo)]
            /\ UNCHANGED stopped
    /\ UNCHANGED <<seed, state, actionMatch, sideEffectMatch, nReg, wakeFn, syncData,
                   stream, nExt, nSusp, seen, snapshots>>

\* scan accumulator returns newState, main.ts 126: scan stores it and
\* state$ publishes it
HandlerReturn ==
    /\ ~Idle
    /\ Top.pc = "handler"
    /\ Top.todo = <<>>
    /\ LET m == Top.i IN
       /\ seed' = [seed EXCEPT ![m] = Top.newState]
       /\ state' = [state EXCEPT ![m] = Top.newState]
       /\ snapshots' = [snapshots EXCEPT
                           ![m] = Append(@, <<Top.action.id, Top.newState>>)]
       /\ ev' = [op |-> "publish", m |-> m, id |-> Top.action.id]
    /\ stack' = SetTop(NextSubscriber(Top))
    /\ UNCHANGED <<stopped, actionMatch, sideEffectMatch, nReg, wakeFn, syncData,
                   stream, nextId, nExt, nSusp, seen>>

\* Subject.next() returns: every subscriber has been served
EndBroadcast ==
    /\ ~Idle
    /\ Top.pc = "next"
    /\ Top.i > NumModels
    /\ stack' = SubSeq(stack, 1, Len(stack) - 1)
    /\ ev' = [op |-> "end", id |-> Top.action.id]
    /\ UNCHANGED <<seed, state, stopped, actionMatch, sideEffectMatch, nReg, wakeFn,
                   syncData, stream, nextId, nExt, nSusp, seen, snapshots>>

\* A call of suspend / suspendWithTimeout on model m, from a callback
\* that runs outside any broadcast
CallSuspend(m, timeout, sync, fn) ==
    /\ IsActive(m) => nSusp < MaxSuspend
    /\ Idle
    /\ IF timeout = 0
       THEN Suspend(m, sync, fn)
       ELSE SuspendWithTimeout(m, timeout, sync, fn)
    /\ nSusp' = IF IsActive(m) THEN nSusp + 1 ELSE nSusp
    /\ UNCHANGED <<stack, seed, state, stopped, actionMatch, sideEffectMatch, nReg,
                   nextId, nExt, seen, snapshots>>

\* Variant of TimerFire: the timeout also puts the model back to active.
TimerFire_Reset(m) ==
    /\ Idle
    /\ stream[m].timer
    /\ stream' = [stream EXCEPT ![m] = TimerError(@)]
    /\ wakeFn' = [wakeFn EXCEPT ![m] = NoFn]
    /\ syncData' = [syncData EXCEPT ![m] = Null]
    /\ ev' = [op |-> "timeout", m |-> m]
    /\ UNCHANGED <<stack, seed, state, stopped, actionMatch, sideEffectMatch,
                   nReg, nextId, nExt, nSusp, seen, snapshots>>

\* timer(timeout) of part_000 296 fires
TimerFire(m) ==
    /\ Idle
    /\ stream[m].timer
    /\ stream' = [stream EXCEPT ![m] = TimerError(@)]
    /\ ev' = [op |-> "timeout", m |-> m]
    /\ UNCHANGED <<stack, seed, state, stopped, actionMatch, sideEffectMatch, nReg,
                   wakeFn, syncData, nextId, nExt, nSusp, seen, snapshots>>

----------------------------------------------------------------------------
(* StatelessModel: the handler tables *)

NoReducer == "null"            \* the argument reducer = null
NoSE == "undefined"            \* the argument seProducer left out

(* What callers hand to the registration methods: an action name, a      *)
(* reducer or null, a side-effect handler (dispatching one C) or none.    *)
RegisterInputs ==
    {[name |-> k, reducer |-> r, se |-> se] :
        k \in Names, r \in {NoReducer, "dbl"}, se \in {NoSE, "C"}}

(* The action names handed to reduceAlsoOn / sideEffectAlsoOn.            *)
AliasInputs == {{n} : n \in Names} \cup {Names}

\* Variant of AddTo: an existing entry is overwritten instead of raising.
AddTo_Overwrite(am, sem, k, r, se, rEntry, seEntry) ==
    [ok  |-> TRUE, err |-> "",
     am  |-> IF r # NoReducer THEN [am EXCEPT ![k] = rEntry] ELSE am,
     sem |-> IF se # NoSE THEN [sem EXCEPT ![k] = seEntry] ELSE sem]

\* The body shared by addActionHandler (part_000 160-177) and
\* addActionSubtypeHandler (part_000 191-211) on the tables am and sem:
\* the reducer entry is written before the side-effect entry is examined.
AddTo(am, sem, k, r, se, rEntry, seEntry) ==
    IF r # NoReducer /\ am[k] # Undefined
    THEN [ok |-> FALSE, err |-> "reducer", am |-> am, sem |-> sem]
    ELSE LET am1 == IF r # NoReducer THEN [am EXCEPT ![k] = rEntry]
                    ELSE am IN
         IF se # NoSE /\ sem[k] # Undefined
         THEN [ok |-> FALSE, err |-> "sideEffect", am |-> am1, sem |-> sem]
         ELSE [ok  |-> TRUE, err |-> "", am |-> am1,
               sem |-> IF se # NoSE THEN [sem EXCEPT ![k] = seEntry]
                       ELSE sem]

\* One call of a registration method on model m
Registration(m, op, k, r, se, res) ==
    /\ Idle
    /\ nReg < MaxReg
    /\ nReg' = nReg + 1
    /\ actionMatch' = [actionMatch EXCEPT ![m] = res.am]
    /\ sideEffectMatch' = [sideEffectMatch EXCEPT ![m] = res.sem]
    /\ ev' = [op |-> op, m |-> m, name |-> k, reducer |-> r, se |-> se,
              ok |-> res.ok, err |-> res.err]
    /\ UNCHANGED <<stack, seed, state, stopped, wakeFn, syncData, stream,
                   nextId, nExt, nSusp, seen, snapshots>>

\* addActionHandler(actionName, reducer, seProducer), part_000 158-178
AddActionHandler(m, k, r, se) ==
    Registration(m, "add", k, r, se,
        AddTo(actionMatch[m], sideEffectMatch[m], k, r, se, <<r>>, <<se>>))

\* addActionSubtypeHandler(actionName, match, reducer, seProducer),
\* part_000 189-212
AddActionSubtypeHandler(m, k, r, se) ==
    Registration(m, "addSubtype", k, r, se,
        AddTo(actionMatch[m], sideEffectMatch[m], k, r, se,
              IF r # NoReducer THEN <<GuardedPrim[r]>> ELSE <<>>,
              IF se # NoSE THEN <<GuardedName[se]>> ELSE <<>>))

\* Variant of ReplaceActionHandler: the old entries are not deleted first.
ReplaceActionHandler_NoDelete(m, k, r, se) ==
    Registration(m, "replace", k, r, se,
        AddTo(actionMatch[m], sideEffectMatch[m], k, r, se, <<r>>, <<se>>))

\* replaceActionHandler(actionName, reducer, seProducer), part_000 218-222
ReplaceActionHandler(m, k, r, se) ==
    Registration(m, "replace", k, r, se,
        AddTo([actionMatch[m] EXCEPT ![k] = Undefined],
              [sideEffectMatch[m] EXCEPT ![k] = Undefined],
              k, r, se, <<r>>, <<se>>))

\* Variant of Extended: the new part runs before the registered one.
Extended_NewFirst(curr, new) ==
    (IF new \in {NoReducer, NoSE} THEN <<>> ELSE <<new>>)
        \o (IF curr # Undefined THEN curr ELSE <<>>)

\* The wrappers of extendActionHandler, part_000 230-244: the registered
\* function, or one that does nothing, followed by the new one if given
Extended(curr, new) ==
    (IF curr # Undefined THEN curr ELSE <<>>)
        \o (IF new \in {NoReducer, NoSE} THEN <<>> ELSE <<new>>)

\* extendActionHandler(actionName, reducer, seProducer), part_000 229-246
ExtendActionHandler(m, k, r, se) ==
    Registration(m, "extend", k, r, se,
        [ok  |-> TRUE, err |-> "",
         am  |-> [actionMatch[m] EXCEPT ![k] = Extended(@, r)],
         sem |-> [sideEffectMatch[m] EXCEPT ![k] = Extended(@, se)]])

\* Variant of AlsoOn: the function is copied without looking whether
\* there is one.
AlsoOn_NoCheck(table, k, actions) ==
    [ok |-> TRUE, err |-> "",
     table |-> [n \in Names |-> IF n \in actions THEN table[k]
                              ELSE table[n]]]

\* reduceAlsoOn / sideEffectAlsoOn of the modifier createHandlerModifier
\* returns for k, part_000 125-145, on one of the two tables
AlsoOn(table, k, actions) ==
    IF table[k] = Undefined
    THEN [ok |-> FALSE, err |-> "undefined", table |-> table]
    ELSE [ok |-> TRUE, err |-> "",
          table |-> [n \in Names |-> IF n \in actions THEN table[k]
                                   ELSE table[n]]]

\* reduceAlsoOn(...actions), part_000 125-134
ReduceAlsoOn(m, k, actions) ==
    LET res == AlsoOn(actionMatch[m], k, actions) IN
    /\ Idle
    /\ nReg < MaxReg
    /\ nReg' = nReg + 1
    /\ actionMatch' = [actionMatch EXCEPT ![m] = res.table]
    /\ ev' = [op |-> "reduceAlsoOn", m |-> m, name |-> k,
              actions |-> actions, ok |-> res.ok, err |-> res.err]
    /\ UNCHANGED <<stack, seed, state, stopped, sideEffectMatch, wakeFn,
                   syncData, stream, nextId, nExt, nSusp, seen, snapshots>>

\* sideEffectAlsoOn(...actions), part_000 135-145
SideEffectAlsoOn(m, k, actions) ==
    LET res == AlsoOn(sideEffectMatch[m], k, actions) IN
    /\ Idle
    /\ nReg < MaxReg
    /\ nReg' = nReg + 1
    /\ sideEffectMatch' = [sideEffectMatch EXCEPT ![m] = res.table]
    /\ ev' = [op |-> "sideEffectAlsoOn", m |-> m, name |-> k,
              actions |-> actions, ok |-> res.ok, err |-> res.err]
    /\ UNCHANGED <<stack, seed, state, stopped, actionMatch, wakeFn,
                   syncData, stream, nextId, nExt, nSusp, seen, snapshots>>

----------------------------------------------------------------------------

Init ==
    /\ stack = <<>>
    /\ \E s \in InitialStates :
          /\ seed = [m \in Models |-> s]
          /\ state = [m \in Models |-> s]
    /\ stopped = [m \in Models |-> FALSE]
    /\ actionMatch = [m \in Models |-> InitActionMatch(m)]
    /\ sideEffectMatch = [m \in Models |-> InitSideEffectMatch(m)]
    /\ wakeFn = [m \in Models |-> NoFn]
    /\ syncData = [m \in Models |-> Null]
    /\ stream = [m \in Models |-> NoStream]
    /\ nextId = 1
    /\ nExt = 0
    /\ nSusp = 0
    /\ nReg = 0
    /\ seen = [m \in Models |-> <<>>]
    /\ snapshots = [m \in Models |-> <<>>]
    /\ ev = NoEv

Next ==
    \/ \E d \in DispatchInputs : Dispatch(d.name, d.error)
    \/ Observe
    \/ HandlerDispatch
    \/ HandlerReturn
    \/ EndBroadcast
    \/ \E m \in Models, i \in SuspendInputs :
          CallSuspend(m, i.timeout, i.sync, i.fn)
    \/ \E m \in Models : TimerFire(m)

Spec == Init /\ [][Next]_vars

\* A broadcast runs to completion (one JavaScript call stack), and an armed
\* timer fires once the stack is empty.
Broadcast == Observe \/ HandlerDispatch \/ HandlerReturn \/ EndBroadcast

FairSpec ==
    /\ Spec
    /\ WF_vars(Broadcast)
    /\ \A m \in Models : WF_vars(TimerFire(m))

\* The setup phase: handlers are registered before any action is
\* dispatched
RegNext ==
    \/ \E m \in Models, i \in RegisterInputs :
          AddActionHandler(m, i.name, i.reducer, i.se)
    \/ \E m \in Models, i \in RegisterInputs :
          AddActionSubtypeHandler(m, i.name, i.reducer, i.se)
    \/ \E m \in Models, i \in RegisterInputs :
          ReplaceActionHandler(m, i.name, i.reducer, i.se)
    \/ \E m \in Models, i \in RegisterInputs :
          ExtendActionHandler(m, i.name, i.reducer, i.se)
    \/ \E m \in Models, k \in Names, actions \in AliasInputs :
          ReduceAlsoOn(m, k, actions)
    \/ \E m \in Models, k \in Names, actions \in AliasInputs :
          SideEffectAlsoOn(m, k, actions)

RegSpec == Init /\ [][RegNext]_vars

----------------------------------------------------------------------------
(* One StatelessModel driven through its own methods: suspend, wakeUp and *)
(* the timer, one suspension episode after the other                      *)

\* A call of suspend / suspendWithTimeout on model m, the one model the
\* run is about
SuspendCall(m, timeout, sync, fn) ==
    /\ \A o \in Models \ {m} : stream[o].term = "nostream"
    /\ IsActive(m) => nSusp < MaxEpisodes
    /\ Idle
    /\ IF timeout = 0
       THEN Suspend(m, sync, fn)
       ELSE SuspendWithTimeout(m, timeout, sync, fn)
    /\ nSusp' = IF IsActive(m) THEN nSusp + 1 ELSE nSusp
    /\ UNCHANGED <<stack, seed, state, stopped, actionMatch, sideEffectMatch,
                   nReg, nextId, nExt, seen, snapshots>>

\* A call of wakeUp(action) on model m with a new action; on an active
\* model wakeUp returns at once (part_000 326), those calls are left out
WakeUpCall(m, n, e) ==
    /\ Idle
    /\ ~IsActive(m)
    /\ nextId <= MaxWake
    /\ WakeUp(m, [id |-> nextId, name |-> n, error |-> e,
                  isSideEffect |-> FALSE, cause |-> 0])
    /\ nextId' = nextId + 1
    /\ UNCHANGED <<stack, seed, state, stopped, actionMatch, sideEffectMatch,
                   nReg, nExt, nSusp, seen, snapshots>>

WakeNext ==
    \/ \E m \in Models, i \in SuspendInputs :
          SuspendCall(m, i.timeout, i.sync, i.fn)
    \/ \E m \in Models, d \in DispatchInputs : WakeUpCall(m, d.name, d.error)
    \/ \E m \in Models : TimerFire(m)

WakeSpec == Init /\ [][WakeNext]_vars

\* An armed timer fires unless the stream ends before.
FairWakeSpec == WakeSpec /\ \A m \in Models : WF_vars(TimerFire(m))

----------------------------------------------------------------------------
(* Properties *)

Range(q) == {q[k] : k \in 1..Len(q)}

Count(x, q) == Cardinality({k \in 1..Len(q) : q[k] = x})

Terminated(s) == s.term \in {"complete", "error"}

\* C1: whenever wakeUp hands an action A to the wake predicate of a
\* suspended model and the predicate returns null, the model is active
\* afterwards and the output stream has emitted A exactly once, as its last
\* value, and completed (A without error flag), or has ended with an error
\* having emitted nothing (A with error flag).
C1_WakeOnNull ==
    (ev.op = "wakeUp" /\ ev.ans = "null") =>
        LET s == stream[ev.m] IN
        /\ IsActive(ev.m)
        /\ IF ev.error
           THEN s.term = "error" /\ s.out = <<>>
           ELSE /\ s.term = "complete"
                /\ Count(ev.id, s.out) = 1
                /\ s.out[Len(s.out)] = ev.id

\* C2, as claimed: once the episode is over (the model is active again),
\* every action the model passed on while suspended has been emitted on the
\* output stream exactly once, however the episode ended.  Stated for the
\* episodes in which no timeout occurred.
C2_ForwardedAlwaysEmitted ==
    \A m \in Models :
        (IsActive(m) /\ stream[m].term # "nostream"
                     /\ stream[m].err # "timeout") =>
            \A id \in Range(stream[m].fwd) : Count(id, stream[m].out) = 1

\* C2, amended: when the wake predicate returns a value v that is neither
\* null nor the current syncData, the model stays suspended with its
\* predicate, syncData becomes v, and nothing is emitted yet; the action is
\* emitted exactly once if the stream completes, and never if the stream
\* ends with an error (error-flagged waking action, throwing predicate,
\* timeout).
C2_ForwardedEmittedOnCompletion ==
    /\ [][(ev'.op = "wakeUp" /\ ev'.ans = "new") =>
            LET m == ev'.m IN
            /\ wakeFn'[m] = wakeFn[m]
            /\ wakeFn'[m] # NoFn
            /\ syncData'[m] = WakeAns(wakeFn[m], Top.action, syncData[m])
            /\ syncData'[m] # syncData[m]
            /\ syncData'[m] # Null
            /\ stream'[m].fwd = Append(stream[m].fwd, ev'.id)
            /\ stream'[m].out = stream[m].out
            /\ stream[m].sub => stream'[m].acc = Append(stream[m].acc, ev'.id)
       ]_vars
    /\ [](\A m \in Models :
            LET s == stream[m] IN
            /\ s.term = "complete" =>
                   \A id \in Range(s.fwd) : Count(id, s.out) = 1
            /\ s.term \in {"open", "error"} => s.out = <<>>)

C2_Witness ==
    \E m \in Models :
        /\ stream[m].term = "complete"
        /\ stream[m].fwd # <<>>
        /\ Len(stream[m].out) = Len(stream[m].fwd) + 1

\* C3: when the wake predicate returns the very syncData it was given, the
\* model stays suspended with the same predicate and syncData, no model's
\* committed state changes, the output stream is left as it was, and the
\* action never shows up in the stream's accumulator or output.
C3_SameSyncSwallowed ==
    /\ [][(ev'.op = "wakeUp" /\ ev'.ans = "same") =>
            LET m == ev'.m IN
            /\ wakeFn[m] # NoFn
            /\ wakeFn' = wakeFn
            /\ syncData' = syncData
            /\ state' = state
            /\ seed' = seed
            /\ stream'[m] = [stream[m] EXCEPT !.swal = @ \cup {ev'.id}]
       ]_vars
    /\ [](\A m \in Models :
            stream[m].swal \cap
                (Range(stream[m].acc) \cup Range(stream[m].out)) = {})

C3_Witness ==
    /\ ev.op = "wakeUp"
    /\ ev.ans = "same"
    /\ ev.id \in stream[ev.m].swal
    /\ ~IsActive(ev.m)

\* C4: a suspend call fails exactly when the model is already suspended,
\* and the failing call leaves the wake predicate, the syncData and the
\* output stream of the outstanding suspension as they were.
C4_SecondSuspendFails ==
    [][ev'.op = "suspend" =>
        LET m == ev'.m IN
        /\ ev'.ok <=> IsActive(m)
        /\ ~ev'.ok => /\ wakeFn' = wakeFn
                       /\ syncData' = syncData
                       /\ stream' = stream
    ]_vars

C4_Witness ==
    /\ ev.op = "suspend"
    /\ ~ev.ok
    /\ ~IsActive(ev.m)
    /\ stream[ev.m].term = "open"

\* C5: whenever the wake predicate throws, the model is active afterwards
\* and the output stream has ended with the predicate's error.
C5_ThrowingPredicate ==
    (ev.op = "wakeUp" /\ ev.ans = "throw") =>
        /\ IsActive(ev.m)
        /\ stream[ev.m].term = "error"
        /\ stream[ev.m].err = "predicate"

\* C6: right after the timeout error has been raised on the output stream
\* the model is active.
C6_TimeoutForcesActive ==
    ev.op = "timeout" => IsActive(ev.m)

\* C7: an armed timeout leads to the end of the output stream; a stream
\* that ends while its timer is armed, other than by wakeUp, ends with the
\* timeout error; and a stream that ended with the timeout error has
\* delivered nothing, whatever was passed on during the episode.
C7_TimeoutError ==
    /\ \A m \in Models : stream[m].timer ~> Terminated(stream[m])
    /\ [][\A m \in Models :
            (stream[m].timer /\ Terminated(stream'[m]) /\ ev'.op # "wakeUp")
                => (ev'.op = "timeout" /\ stream'[m].err = "timeout")]_vars
    /\ [](\A m \in Models :
            stream[m].err = "timeout" =>
                stream[m].term = "error" /\ stream[m].out = <<>>)

C7_Witness ==
    \E m \in Models :
        /\ stream[m].err = "timeout"
        /\ stream[m].fwd # <<>>
        /\ ev.op = "timeout"

Frames == {stack[k] : k \in 1..Len(stack)}

\* C8: no model observes a side-effect action before it has observed the
\* action whose handler dispatched it.
C8_CauseObservedFirst ==
    \A m \in Models : \A k \in 1..Len(seen[m]) :
        seen[m][k].cause # 0 =>
            \E j \in 1..(k - 1) : seen[m][j].id = seen[m][k].cause

\* C9: a call of the dispatch helper fails exactly when the action being
\* processed is a side effect; a failing call creates no action and starts
\* no broadcast, a successful one broadcasts the action tagged as a side
\* effect; so a broadcast nested in another is that of a side effect of an
\* action that is none, and no side-effect action causes another action.
C9_NoNestedSideEffect ==
    /\ [][ev'.op = "seDispatch" =>
            /\ ev'.ok <=> ~Top.action.isSideEffect
            /\ ev'.ok =>
                  /\ Len(stack') = Len(stack) + 1
                  /\ stack'[Len(stack')].action =
                        [id |-> nextId, name |-> ev'.name, error |-> FALSE,
                         isSideEffect |-> TRUE, cause |-> Top.action.id]
            /\ ~ev'.ok =>
                  /\ Len(stack') = Len(stack)
                  /\ nextId' = nextId
       ]_vars
    /\ [](\A k \in 2..Len(stack) :
            /\ stack[k].action.isSideEffect
            /\ ~stack[k - 1].action.isSideEffect
            /\ stack[k].action.cause = stack[k - 1].action.id)
    /\ [](\A m1 \in Models, m2 \in Models :
            \A e1 \in Range(seen[m1]), e2 \in Range(seen[m2]) :
                e2.cause = e1.id => e1.cause = 0)

C9_Witness ==
    /\ ev.op = "seDispatch"
    /\ ~ev.ok
    /\ stopped[ev.m]

\* C10, as claimed: while the side-effect handler of an action runs in a
\* model, the state it was passed is the model's committed state.
C10_CommittedBeforeHandler ==
    \A f \in Frames :
        (f.pc = "handler" /\ SideEffects(f.i, f.action) # <<>>) =>
            GetState(f.i) = f.newState

\* C10, amended: the side-effect handler of an action is passed exactly
\* reduce(state held when the action arrived, action); that state is
\* published on the state stream only once the handler has returned, and
\* is then the committed state.
C10_CommittedAfterHandler ==
    /\ [](\A f \in Frames :
            f.pc = "handler" =>
                /\ f.newState = Reduce(f.i, f.pre, f.action)
                /\ \A k \in 1..Len(snapshots[f.i]) :
                       snapshots[f.i][k][1] # f.action.id)
    /\ [][ev'.op = "reduce" => Top'.pre = GetState(ev'.m)]_vars
    /\ [][ev'.op = "publish" =>
            /\ Top.pc = "handler"
            /\ Top.todo = <<>>
            /\ state'[ev'.m] = Top.newState
            /\ snapshots'[ev'.m] =
                  Append(snapshots[ev'.m], <<ev'.id, Top.newState>>)
       ]_vars

C10_Witness ==
    \E f \in Frames :
        /\ f.pc = "handler"
        /\ f.todo = <<>>
        /\ SideEffects(f.i, f.action) # <<>>
        /\ f.newState # f.pre
        /\ GetState(f.i) # f.newState

\* C11: every state a model commits is reduce applied to the state it had
\* committed before and the action, so that the committed state is the
\* left fold of reduce over the actions observed; and once every
\* broadcast has ended, state$ of a model that was never suspended and
\* never cut off has published one snapshot per observed action, in the
\* order of observation.
C11_StateIsFold ==
    /\ [][ev'.op = "publish" =>
            \A m \in Models : ev'.m = m =>
                state'[m] = Reduce(m, state[m], Top.action)
         ]_vars
    /\ [](Idle =>
            \A m \in Models :
                (~stopped[m] /\ stream[m].term = "nostream") =>
                    /\ Len(snapshots[m]) = Len(seen[m])
                    /\ \A k \in 1..Len(seen[m]) :
                           snapshots[m][k][1] = seen[m][k].id)

(* The states and actions on which the handler tables are compared.       *)
TestStates == 0..3

TestActions == {[name |-> n, error |-> e] : n \in Names, e \in BOOLEAN}

\* what a reducer or side-effect argument does, null and undefined
\* included
ArgReduce(r, s) == IF r = NoReducer THEN s ELSE ApplyPrim(r, s)

ArgCalls(se) == IF se = NoSE THEN <<>> ELSE <<se>>

\* C12: addActionHandler and addActionSubtypeHandler raise an error exactly
\* when they are given a reducer for a name that has a reducer or a
\* side-effect handler for a name that has a side-effect handler; after a
\* failing call every entry that was registered before is still the same.
C12_DuplicateFails ==
    [][ev'.op \in {"add", "addSubtype"} =>
          \A m \in Models : ev'.m = m =>
              LET k == ev'.name
                  dupR == ev'.reducer # NoReducer
                              /\ actionMatch[m][k] # Undefined
                  dupSE == ev'.se # NoSE
                              /\ sideEffectMatch[m][k] # Undefined
              IN  /\ ev'.ok <=> ~(dupR \/ dupSE)
                  /\ dupR => ev'.err = "reducer"
                  /\ (~dupR /\ dupSE) => ev'.err = "sideEffect"
                  /\ ~ev'.ok =>
                        \A n \in Names :
                            /\ actionMatch[m][n] # Undefined =>
                                  actionMatch'[m][n] = actionMatch[m][n]
                            /\ sideEffectMatch[m][n] # Undefined =>
                                  sideEffectMatch'[m][n] =
                                      sideEffectMatch[m][n]
       ]_vars

C12_Witness ==
    /\ ev.op \in {"add", "addSubtype"}
    /\ ~ev.ok
    /\ ev.err = "sideEffect"
    /\ ev.reducer # NoReducer

\* C13: replaceActionHandler never fails, whatever is registered; after
\* it an action of that name is reduced by the new reducer alone (left
\* unchanged when the reducer is null) and triggers the new side-effect
\* handler alone (none when it is left out); other names keep their
\* entries.
C13_ReplaceOverrides ==
    [][ev'.op = "replace" =>
          /\ ev'.ok
          /\ \A m \in Models : ev'.m = m =>
                /\ \A a \in TestActions : a.name = ev'.name =>
                      /\ \A s \in TestStates :
                            Reduce(m, s, a)' = ArgReduce(ev'.reducer, s)
                      /\ SideEffects(m, a)' = ArgCalls(ev'.se)
                /\ (ev'.reducer = NoReducer) <=>
                      (actionMatch'[m][ev'.name] = Undefined)
                /\ (ev'.se = NoSE) <=>
                      (sideEffectMatch'[m][ev'.name] = Undefined)
                /\ \A n \in Names \ {ev'.name} :
                      /\ actionMatch'[m][n] = actionMatch[m][n]
                      /\ sideEffectMatch'[m][n] = sideEffectMatch[m][n]
       ]_vars

C13_Witness ==
    /\ ev.op = "replace"
    /\ nReg = 1
    /\ ev.m = 1
    /\ ev.name = "A"
    /\ ev.reducer = NoReducer
    /\ ev.se = NoSE
    /\ actionMatch[1]["A"] = Undefined
    /\ sideEffectMatch[1]["A"] = Undefined

\* C14: extendActionHandler never fails; after it an action of that name
\* is reduced to r2(r1(state)), r1 being what the name reduced to before
\* (the identity if it had no reducer) and r2 the new reducer (the
\* identity if null), and its side effects are those of the handler
\* registered before (none if there was none) followed by those of the
\* new one.
C14_ExtendComposes ==
    [][ev'.op = "extend" =>
          /\ ev'.ok
          /\ \A m \in Models : ev'.m = m =>
                /\ \A a \in TestActions : a.name = ev'.name =>
                      /\ \A s \in TestStates :
                            Reduce(m, s, a)' =
                                ArgReduce(ev'.reducer, Reduce(m, s, a))
                      /\ SideEffects(m, a)' =
                            SideEffects(m, a) \o ArgCalls(ev'.se)
                /\ \A n \in Names \ {ev'.name} :
                      /\ actionMatch'[m][n] = actionMatch[m][n]
                      /\ sideEffectMatch'[m][n] = sideEffectMatch[m][n]
       ]_vars

C14_Witness ==
    /\ ev.op = "extend"
    /\ nReg = 1
    /\ ev.m = 1
    /\ ev.name = "A"
    /\ ev.reducer = "dbl"
    /\ ev.se = "C"
    /\ Reduce(1, 1, [name |-> "A", error |-> FALSE]) = 4
    /\ SideEffects(1, [name |-> "A", error |-> FALSE]) = <<"B", "C">>

\* C15: after a successful addActionSubtypeHandler an action of that name
\* is reduced by the given reducer if the predicate accepts it and left
\* unchanged otherwise, and the given side-effect handler runs for it if
\* and only if the predicate accepts it.
C15_SubtypeGuard ==
    [][(ev'.op = "addSubtype" /\ ev'.ok) =>
          \A m \in Models : ev'.m = m =>
              \A a \in TestActions : a.name = ev'.name =>
                  /\ ev'.reducer # NoReducer =>
                        \A s \in TestStates :
                            Reduce(m, s, a)' =
                                IF Match(a) THEN ApplyPrim(ev'.reducer, s)
                                ELSE s
                  /\ ev'.se # NoSE =>
                        SideEffects(m, a)' =
                            IF Match(a) THEN <<ev'.se>> ELSE <<>>
       ]_vars

C15_Witness ==
    /\ ev.op = "addSubtype"
    /\ ev.ok
    /\ ev.reducer # NoReducer
    /\ ev.se # NoSE
    /\ \E a \in TestActions :
          a.name = ev.name /\ ~Match(a) /\ Reduce(ev.m, 1, a) = 1
    /\ \E a \in TestActions :
          a.name = ev.name /\ Match(a) /\ Reduce(ev.m, 1, a) = 2

\* C16: reduceAlsoOn fails, changing nothing, exactly when the name has
\* no reducer; otherwise every listed name gets the reducer the name has
\* at that moment, the other names keep theirs and no side-effect entry
\* changes.  sideEffectAlsoOn does the same on the side-effect handlers,
\* independently of the reducers.
C16_AliasRoutes ==
    [][ev'.op \in {"reduceAlsoOn", "sideEffectAlsoOn"} =>
          \A m \in Models : ev'.m = m =>
              LET k == ev'.name
                  red == ev'.op = "reduceAlsoOn"
                  old == IF red THEN actionMatch[m] ELSE sideEffectMatch[m]
                  new == IF red THEN actionMatch'[m]
                         ELSE sideEffectMatch'[m]
              IN  /\ ev'.ok <=> (old[k] # Undefined)
                  /\ red => sideEffectMatch' = sideEffectMatch
                  /\ ~red => actionMatch' = actionMatch
                  /\ ~ev'.ok => new = old
                  /\ ev'.ok =>
                        \A n \in Names :
                            new[n] = IF n \in ev'.actions THEN old[k]
                                     ELSE old[n]
       ]_vars

C16_Witness ==
    /\ ev.op = "reduceAlsoOn"
    /\ ev.ok
    /\ ev.name = "A"
    /\ ev.actions = {"C"}
    /\ nReg = 1
    /\ \A a \in TestActions : \A s \in TestStates :
          a.name = "C" => Reduce(ev.m, s, a) = s + 1
    /\ sideEffectMatch[ev.m]["C"] = InitSideEffectMatch(ev.m)["C"]

\* C17: when a model reduces an action whose name has no reducer, the new
\* state is the state it had and the model is not cut off, and the state
\* it then publishes is that same state; when the name has no side-effect
\* handler, the step hands nothing to dispatch.
C17_DefaultsDoNothing ==
    /\ [][ev'.op = "reduce" =>
            \A m \in Models : ev'.m = m =>
                /\ actionMatch[m][Top.action.name] = Undefined =>
                      /\ Top'.newState = seed[m]
                      /\ ~stopped'[m]
                /\ sideEffectMatch[m][Top.action.name] = Undefined =>
                      Top'.todo = <<>>
         ]_vars
    /\ [][ev'.op = "publish" =>
            \A m \in Models :
                (ev'.m = m /\ actionMatch[m][Top.action.name] = Undefined)
                    => /\ state'[m] = Top.pre
                       /\ seed'[m] = Top.pre
         ]_vars

C17_Witness ==
    /\ ev.op = "reduce"
    /\ \E f \in Frames :
          /\ f.pc = "handler"
          /\ f.i = ev.m
          /\ f.action.id = ev.id
          /\ actionMatch[f.i][f.action.name] = Undefined
          /\ sideEffectMatch[f.i][f.action.name] = Undefined
          /\ f.newState = f.pre
          /\ f.pre # 0
          /\ f.todo = <<>>

\* C18: an entry of a handler table that holds a handler changes only in
\* a call of replaceActionHandler or extendActionHandler for that name.
C18_OnlyReplaceOrExtendChange ==
    [][\A m \in Models : \A n \in Names :
          /\ (actionMatch[m][n] # Undefined
                  /\ actionMatch'[m][n] # actionMatch[m][n]) =>
                (ev'.op \in {"replace", "extend"} /\ ev'.name = n)
          /\ (sideEffectMatch[m][n] # Undefined
                  /\ sideEffectMatch'[m][n] # sideEffectMatch[m][n]) =>
                (ev'.op \in {"replace", "extend"} /\ ev'.name = n)
      ]_vars

C20_PredicateAlwaysCalled ==
    ev.op = "wakeUp" => ev.ans # "notcalled"

\* C21: the step that delivers the timeout error leaves the wake predicate
\* and the syncData of the model as they are; an action that reaches the
\* model after that error is handed to that predicate together with the
\* stored syncData, and the predicate's answer is acted upon as before
\* (the model wakes, or stores the new syncData), but nothing more reaches
\* the subscriber of the stream.
C21_StaleWakeStateAfterTimeout ==
    /\ [][ev'.op = "timeout" =>
            /\ wakeFn' = wakeFn
            /\ syncData' = syncData
            /\ \A m \in Models : ev'.m = m => wakeFn'[m] # NoFn
         ]_vars
    /\ [][\A m \in Models :
            (ev'.op = "wakeUp" /\ ev'.m = m /\ stream[m].err = "timeout"
                 /\ syncData[m] # Null) =>
                LET ans == WakeAns(wakeFn[m], Top.action, syncData[m]) IN
                /\ wakeFn[m] # NoFn
                /\ ev'.ans = AnsKind(ans, syncData[m])
                /\ wakeFn'[m] = WakeFnAfter(ans, wakeFn[m])
                /\ syncData'[m] = SyncDataAfter(ans, syncData[m])
                /\ stream'[m].term = "error"
                /\ stream'[m].err = "timeout"
                /\ stream'[m].out = <<>>
         ]_vars

C21_Witness ==
    /\ ev.op = "wakeUp"
    /\ ev.ans = "new"
    /\ stream[ev.m].err = "timeout"
    /\ syncData[ev.m] = 2
    /\ ~IsActive(ev.m)

\* C22: while a model is suspended the subscriber of its output stream has
\* received no action; right after the model is woken by an action
\* without error flag, the subscriber has received the actions the model
\* passed on during the episode, in the order observed, then the waking
\* action, and the stream has completed.
C22_ForwardedDeliveredOnWake ==
    /\ \A m \in Models : ~IsActive(m) => stream[m].out = <<>>
    /\ (ev.op = "wakeUp" /\ ev.ans = "null" /\ ~ev.error) =>
          /\ stream[ev.m].out = Append(stream[ev.m].fwd, ev.id)
          /\ stream[ev.m].term = "complete"

\* C25: a call of addActionHandler or addActionSubtypeHandler that raises
\* an error leaves both handler tables as they were.
C25_FailingAddChangesNothing ==
    [][(ev'.op \in {"add", "addSubtype"} /\ ~ev'.ok) =>
          (actionMatch' = actionMatch /\ sideEffectMatch' = sideEffectMatch)
      ]_vars

StreamIds(s) == Range(s.acc) \cup Range(s.out) \cup Range(s.fwd) \cup s.swal

\* C23: a wake predicate that returns null or throws leaves the model
\* active; a suspend call succeeds exactly on an active model, also one
\* that was suspended before, and then the model holds the predicate and
\* the syncData of that call and a new output stream that has seen
\* nothing; afterwards the only actions that enter the stream are those
\* handed to wakeUp in the new episode.
C23_SuspendAgain ==
    /\ [][(ev'.op = "wakeUp" /\ ev'.ans \in {"null", "throw"}) =>
            \A m \in Models : ev'.m = m => wakeFn'[m] = NoFn
         ]_vars
    /\ [][ev'.op = "suspend" =>
            \A m \in Models : ev'.m = m =>
                /\ ev'.ok <=> IsActive(m)
                /\ ev'.ok =>
                      \E i \in SuspendInputs :
                          /\ wakeFn'[m] = i.fn
                          /\ syncData'[m] = i.sync
                          /\ stream'[m] = NewStream(i.timeout)
         ]_vars
    /\ [][ev'.op = "wakeUp" =>
            \A m \in Models : ev'.m = m =>
                StreamIds(stream'[m]) \subseteq
                    StreamIds(stream[m]) \cup {ev'.id}
         ]_vars

C23_Witness ==
    /\ nSusp = 2
    /\ ev.op = "wakeUp"
    /\ ev.ans = "null"
    /\ stream[ev.m].term = "complete"
    /\ Len(stream[ev.m].out) = 2
    /\ \A id \in Range(stream[ev.m].out) : id >= 3

\* C24: the output stream of a timed suspension ends (with the timeout
\* error at the latest); once a stream has ended, by completion or by an
\* error, it stays as it ended whatever the timer and later actions do,
\* until a new suspension replaces it: no second terminal event and no
\* further action; and actions are delivered only in the step in which
\* the stream completes.
C24_OneTerminalEvent ==
    /\ \A m \in Models : stream[m].timer ~> Terminated(stream[m])
    /\ [][\A m \in Models :
            (Terminated(stream[m])
                 /\ ~(ev'.op = "suspend" /\ ev'.m = m /\ ev'.ok)) =>
                /\ stream'[m].term = stream[m].term
                /\ stream'[m].err = stream[m].err
                /\ stream'[m].out = stream[m].out
         ]_vars
    /\ [][\A m \in Models :
            (stream'[m].out # stream[m].out /\ ev'.op # "suspend") =>
                /\ stream[m].term = "open"
                /\ stream'[m].term = "complete"
         ]_vars

C24_Witness ==
    /\ ev.op = "wakeUp"
    /\ ev.ans = "null"
    /\ ~ev.error
    /\ stream[ev.m].term = "error"
    /\ stream[ev.m].err = "timeout"
    /\ stream[ev.m].fwd # <<>>
    /\ stream[ev.m].out = <<>>

====
